---------------------------- MODULE Spec2Model ----------------------------
(***************************************************************************)
(* A model of bottom's telemetry pipeline: the process view engine         *)
(* (handle_process_sorting, src/src/main.rs), the temperature ordering     *)
(* (get_temperature_data, src/src/app/data_harvester/temperature.rs), the  *)
(* input thread's debounce, the startup validation and the event merge     *)
(* loop of main.                                                           *)
(*                                                                         *)
(* Floats (CPU%, MEM%, temperatures) are modelled by small integers; NaN   *)
(* readings are not modelled.  Option<T> is a record [some, val].          *)
(***************************************************************************)
EXTENDS Integers, Sequences, FiniteSets, TLC

VARIABLES
    pc,     \* where the modelled thread of the specification stands
    app,    \* the App struct: settings, the snapshot app.data, canvas_data
    iter,   \* what the current step was given and did (history)
    temp,   \* the temperature_vec of get_temperature_data
    inp,    \* the input thread: its two timers and its end of the channel
    st,     \* startup: the rate option, main's progress, the harvester thread
    chan,   \* the two mpsc channels: events to main, resets to the harvester
    threads, \* the harvester and the input thread running beside main
    hist    \* what was sent and received over the channels (history)

vars == <<pc, app, iter, temp, inp, st, chan, threads, hist>>

-----------------------------------------------------------------------------
(* Bounds of the model *)

MaxProcs == 3
MaxTemps == 3
MaxElapsed == 22
MaxQuery == 1

-----------------------------------------------------------------------------
(* Values *)

None == [some |-> FALSE, val |-> <<>>]
Some(v) == [some |-> TRUE, val |-> v]

\* Process names of the model, listed in String's (lexicographic) order.
Names == <<"a", "q">>
NameSet == {Names[i] : i \in 1..Len(Names)}
NameRank(n) == CHOOSE i \in 1..Len(Names) : Names[i] = n

\* (CPU%, MEM%) of a process of the model.
Usage == {<<1, 2>>, <<5, 1>>}

ProcessSorting == {"CPU", "MEM", "PID", "NAME"}

Range(s) == {s[i] : i \in 1..Len(s)}

SeqsUpTo(S, n) == UNION {[1..k -> S] : k \in 0..n}

\* Raw process lists, as the harvester produces them: the pids of one sample
\* are pairwise distinct and pid_vec is None.
RawListsOfLen(k) ==
    {[i \in 1..k |-> [pid |-> ps[i], name |-> ns[i],
                      cpu_usage_percent |-> us[i][1],
                      mem_usage_percent |-> us[i][2],
                      pid_vec |-> None]] :
        ps \in {f \in [1..k -> 1..MaxProcs] :
                  \A i, j \in 1..k : i # j => f[i] # f[j]},
        ns \in [1..k -> NameSet],
        us \in [1..k -> Usage]}

RawLists == UNION {RawListsOfLen(k) : k \in 0..MaxProcs}

EmptyMap == [n \in {} |-> <<0, 0, <<>>>>]

-----------------------------------------------------------------------------
(* The process view engine: grouping *)

\* process_map with "=" for "+=": a bucket keeps its last process's usage.
RECURSIVE process_map_overwrite(_)
process_map_overwrite(list) ==
    IF list = <<>> THEN EmptyMap
    ELSE LET m == process_map_overwrite(SubSeq(list, 1, Len(list) - 1))
             process == list[Len(list)]
             entry_val == IF process.name \in DOMAIN m THEN m[process.name]
                          ELSE <<0, 0, <<>>>>
         IN [n \in (DOMAIN m) \cup {process.name} |->
                IF n = process.name
                THEN <<process.cpu_usage_percent,
                       process.mem_usage_percent,
                       Append(entry_val[3], process.pid)>>
                ELSE m[n]]

\* The loop over app.data.list_of_processes that fills process_map: a left
\* fold, each process added to the bucket of its name.
RECURSIVE process_map(_)
process_map(list) ==
    IF list = <<>> THEN EmptyMap
    ELSE LET m == process_map(SubSeq(list, 1, Len(list) - 1))
             process == list[Len(list)]
             entry_val == IF process.name \in DOMAIN m THEN m[process.name]
                          ELSE <<0, 0, <<>>>>
         IN [n \in (DOMAIN m) \cup {process.name} |->
                IF n = process.name
                THEN <<entry_val[1] + process.cpu_usage_percent,
                       entry_val[2] + process.mem_usage_percent,
                       Append(entry_val[3], process.pid)>>
                ELSE m[n]]

\* BTreeMap::iter: the keys in ascending String order.
KeysInOrder(m) == SelectSeq(Names, LAMBDA n : n \in DOMAIN m)

\* The map over process_map.iter() that builds the grouped ProcessHarvest rows.
grouped_rows(list) ==
    LET m == process_map(list)
        keys == KeysInOrder(m)
    IN [i \in 1..Len(keys) |->
            [pid |-> 0,
             cpu_usage_percent |-> m[keys[i]][1],
             mem_usage_percent |-> m[keys[i]][2],
             name |-> keys[i],
             pid_vec |-> Some(m[keys[i]][3])]]

-----------------------------------------------------------------------------
(* The process view engine: sorting *)

KeyLess(a, b, sorting_method) ==
    CASE sorting_method = "CPU" -> a.cpu_usage_percent < b.cpu_usage_percent
      [] sorting_method = "MEM" -> a.mem_usage_percent < b.mem_usage_percent
      [] sorting_method = "PID" -> a.pid < b.pid
      [] sorting_method = "NAME" -> NameRank(a.name) < NameRank(b.name)

\* a goes strictly before b: ascending, or descending when reverse_order.
Before(a, b, sorting_method, reverse_order) ==
    IF reverse_order THEN KeyLess(b, a, sorting_method)
    ELSE KeyLess(a, b, sorting_method)

\* A stable sort of process_vector on the chosen key.
RECURSIVE sort_processes(_, _, _)
sort_processes(process_vector, sorting_method, reverse_order) ==
    IF Len(process_vector) <= 1 THEN process_vector
    ELSE LET n == Len(process_vector)
             s == sort_processes(SubSeq(process_vector, 1, n - 1),
                                 sorting_method, reverse_order)
             x == process_vector[n]
             k == Cardinality({i \in 1..(n - 1) :
                      ~Before(x, s[i], sorting_method, reverse_order)})
         IN SubSeq(s, 1, k) \o <<x>> \o SubSeq(s, k + 1, n - 1)


\* sort_grouped without the PID substitution.
sort_grouped_as_requested(grouped_list_of_processes, process_sorting_type, process_sorting_reverse) ==
    sort_processes(grouped_list_of_processes, process_sorting_type,
                   process_sorting_reverse)

\* The grouped list is sorted on the requested key, except that PID is
\* replaced by CPU with reverse = true.
sort_grouped(grouped_list_of_processes, process_sorting_type, process_sorting_reverse) ==
    IF process_sorting_type = "PID"
    THEN sort_processes(grouped_list_of_processes, "CPU", TRUE)
    ELSE sort_processes(grouped_list_of_processes, process_sorting_type,
                        process_sorting_reverse)

-----------------------------------------------------------------------------
(* The process view engine: search and the rows handed to the canvas *)

\* Names are one character long: the query is a substring of the name when
\* it is empty or is the name.
Matches(name, query) == query = <<>> \/ query = <<name>>

\* A row under the search: by name, or by the text of its pid (of any pid of
\* pid_vec for a grouped row).  Pids are digits and queries are letters: a
\* pid contains the query only when the query is empty.
RowMatches(p, query, use_pid) ==
    IF use_pid THEN query = <<>> ELSE Matches(p.name, query)

\* (ungrouped rows, grouped rows) of app_data under the query; the grouped
\* rows exist when app_data holds a grouped list.  Filtering keeps the order.
simple_update_process_row(app_data, matching_string, use_pid) ==
    <<SelectSeq(app_data.list_of_processes,
                LAMBDA p : RowMatches(p, matching_string, use_pid)),
      IF app_data.grouped_list_of_processes.some
      THEN Some(SelectSeq(app_data.grouped_list_of_processes.val,
                          LAMBDA p : RowMatches(p, matching_string, use_pid)))
      ELSE None>>

\* A query of the model is a literal pattern: it matches what the simple
\* search matches.
regex_update_process_row(app_data, matcher, use_pid) ==
    simple_update_process_row(app_data, matcher, use_pid)

-----------------------------------------------------------------------------
(* handle_process_sorting *)

\* The engine building the grouped list only when grouping is on.
handle_process_sorting_grouped_if_on(a) ==
    LET sorted_grouped ==
            IF a.enable_grouping
            THEN Some(sort_grouped(grouped_rows(a.data.list_of_processes),
                                   a.process_sorting_type,
                                   a.process_sorting_reverse))
            ELSE None
        sorted_list == sort_processes(a.data.list_of_processes,
                                      a.process_sorting_type,
                                      a.process_sorting_reverse)
        data == [a.data EXCEPT !.grouped_list_of_processes = sorted_grouped,
                               !.list_of_processes = sorted_list]
        tuple_results == simple_update_process_row(data, a.current_search_query,
                                                   a.is_searching_with_pid)
    IN [a EXCEPT !.data = data,
                 !.canvas_data.process_data = tuple_results[1],
                 !.canvas_data.grouped_process_data = tuple_results[2]]

\* Groups the snapshot's processes by name, sorts the grouped and the raw
\* list, filters both by the search and stores the rows in the canvas data.
handle_process_sorting(a) ==
    LET grouped == Some(grouped_rows(a.data.list_of_processes))
        sorted_grouped == Some(sort_grouped(grouped.val, a.process_sorting_type,
                                            a.process_sorting_reverse))
        sorted_list == sort_processes(a.data.list_of_processes,
                                      a.process_sorting_type,
                                      a.process_sorting_reverse)
        data == [a.data EXCEPT !.grouped_list_of_processes = sorted_grouped,
                               !.list_of_processes = sorted_list]
        tuple_results == IF a.use_simple
                         THEN simple_update_process_row(data, a.current_search_query,
                                                        a.is_searching_with_pid)
                         ELSE regex_update_process_row(data, a.current_search_query,
                                                       a.is_searching_with_pid)
    IN [a EXCEPT !.data = data,
                 !.canvas_data.process_data = tuple_results[1],
                 !.canvas_data.grouped_process_data = tuple_results[2]]

-----------------------------------------------------------------------------
(* The App struct *)

\* data_harvester::Data: readings stands for the CPU, memory, network, disk
\* and temperature readings of one sample (0: Data::default()).
DefaultData == [readings |-> 0, list_of_processes |-> <<>>,
                grouped_list_of_processes |-> None]

DefaultCanvas == [snapshot |-> 0, process_data |-> <<>>,
                  grouped_process_data |-> None]

\* App::new
NewApp == [is_frozen |-> FALSE,
           enable_grouping |-> FALSE,
           in_search |-> FALSE,
           current_search_query |-> <<>>,
           is_searching_with_pid |-> FALSE,
           process_sorting_type |-> "CPU",
           process_sorting_reverse |-> TRUE,
           update_process_gui |-> FALSE,
           use_simple |-> FALSE,
           data |-> DefaultData,
           data_collection |-> 0,
           canvas_data |-> DefaultCanvas]

IdleIter == [raw |-> <<>>]
IdleChan == [events |-> <<>>, rx |-> TRUE, resets |-> 0, rrx |-> TRUE]
IdleThreads == [harvester |-> [phase |-> "try_recv", accumulated |-> 0,
                               data |-> [n |-> 0, since_clear |-> 0]],
                input |-> "running"]
IdleHist == [cycle |-> 0, cleared |-> FALSE, harvester_log |-> <<>>,
             input_log |-> <<>>, received |-> <<>>]
IdleTemp == [in |-> <<>>, out |-> <<>>]
IdleInp == [keyboard_timer |-> 0, mouse_timer |-> 0, rx_alive |-> TRUE]
IdleSt == [rate_millis |-> None, update_rate_in_milliseconds |-> None,
           result |-> "none", raw_mode |-> FALSE, input_thread |-> FALSE,
           harvester |-> "unspawned", slept |-> -1,
           exit |-> "none", cleanups |-> 0]

-----------------------------------------------------------------------------
(* SpecProc: handle_process_sorting applied to every raw list and setting *)

InitProc ==
    /\ chan = IdleChan
    /\ threads = IdleThreads
    /\ hist = IdleHist
    /\ pc = "engine"
    /\ \E l \in RawLists, t \in ProcessSorting, r \in BOOLEAN, g \in BOOLEAN :
          /\ app = [NewApp EXCEPT !.data.list_of_processes = l,
                                  !.process_sorting_type = t,
                                  !.process_sorting_reverse = r,
                                  !.enable_grouping = g]
          /\ iter = [raw |-> l]
    /\ temp = IdleTemp
    /\ inp = IdleInp
    /\ st = IdleSt

EngineCall ==
    /\ pc = "engine"
    /\ app' = handle_process_sorting(app)
    /\ pc' = "engine_done"
    /\ UNCHANGED <<chan, threads, hist, iter, temp, inp, st>>

NextProc == EngineCall

SpecProc == InitProc /\ [][NextProc]_vars

-----------------------------------------------------------------------------
(* Properties of the process view engine *)

RECURSIVE SumOver(_, _, _)
SumOver(list, name, field) ==
    IF list = <<>> THEN 0
    ELSE LET p == list[1]
             v == IF field = "cpu" THEN p.cpu_usage_percent
                  ELSE p.mem_usage_percent
         IN (IF p.name = name THEN v ELSE 0) + SumOver(Tail(list), name, field)

PidsOf(list, name) == {list[i].pid : i \in {j \in 1..Len(list) : list[j].name = name}}

GroupedList == app.data.grouped_list_of_processes

\* C2: after handle_process_sorting the grouped list has exactly one row per
\* distinct name of the raw list; the row's CPU% and MEM% are the sums over
\* the raw processes of that name, its pid_vec is Some of exactly their pids,
\* each once and at least one, and its pid is 0.
C2_Grouping ==
    pc = "engine_done" =>
        /\ GroupedList.some
        /\ LET g == GroupedList.val
               raw == iter.raw
           IN /\ {g[i].name : i \in 1..Len(g)} = {raw[i].name : i \in 1..Len(raw)}
              /\ \A i, j \in 1..Len(g) : i # j => g[i].name # g[j].name
              /\ \A i \in 1..Len(g) :
                    /\ g[i].cpu_usage_percent = SumOver(raw, g[i].name, "cpu")
                    /\ g[i].mem_usage_percent = SumOver(raw, g[i].name, "mem")
                    /\ g[i].pid = 0
                    /\ g[i].pid_vec.some
                    /\ g[i].pid_vec.val # <<>>
                    /\ Range(g[i].pid_vec.val) = PidsOf(raw, g[i].name)
                    /\ Len(g[i].pid_vec.val) = Cardinality(PidsOf(raw, g[i].name))

\* Two processes share a name, a third has another: two rows, one merged.
C2_Witness ==
    /\ pc = "engine_done"
    /\ Len(iter.raw) = 3
    /\ GroupedList.some
    /\ Len(GroupedList.val) = 2
    /\ \E i \in 1..2 : Len(GroupedList.val[i].pid_vec.val) = 2

CpuDescending(rows) ==
    \A i, j \in 1..Len(rows) :
        i < j => rows[i].cpu_usage_percent >= rows[j].cpu_usage_percent

\* C3: with grouping on and PID the requested sort key, the grouped rows
\* handle_process_sorting leaves (in app.data and in canvas_data) are in
\* CPU-descending order, for either requested direction.
C3_PidSubstitution ==
    (/\ pc = "engine_done"
     /\ app.enable_grouping
     /\ app.process_sorting_type = "PID") =>
        /\ GroupedList.some
        /\ CpuDescending(GroupedList.val)
        /\ app.canvas_data.grouped_process_data.some
        /\ CpuDescending(app.canvas_data.grouped_process_data.val)

\* The rows come out against the name order of the map: "q" uses more CPU.
C3_Witness ==
    /\ pc = "engine_done"
    /\ app.enable_grouping
    /\ app.process_sorting_type = "PID"
    /\ ~app.process_sorting_reverse
    /\ GroupedList.some
    /\ Len(GroupedList.val) = 2
    /\ GroupedList.val[1].name = "q"
    /\ GroupedList.val[1].cpu_usage_percent > GroupedList.val[2].cpu_usage_percent

-----------------------------------------------------------------------------
(* get_temperature_data: the two sort passes *)

\* Component names of the model, listed in String's order.
ComponentNames == <<"a", "b", "c">>
ComponentRank(n) == CHOOSE i \in 1..Len(ComponentNames) : ComponentNames[i] = n
TempVals == {10, 20}

TempHarvest == [component_name : Range(ComponentNames), temperature : TempVals]

\* partial_cmp on two readings that are numbers.
partial_cmp(x, y) == IF x < y THEN "Less" ELSE IF x > y THEN "Greater" ELSE "Equal"

\* The comparator of the first sort_by: the order of the temperatures, reversed.
temperature_cmp(a, b) ==
    LET x == partial_cmp(a.temperature, b.temperature)
    IN CASE x = "Less" -> "Greater"
         [] x = "Greater" -> "Less"
         [] x = "Equal" -> "Equal"

\* The comparator of the second sort_by: the order of the names.
name_cmp(a, b) ==
    partial_cmp(ComponentRank(a.component_name), ComponentRank(b.component_name))

Cmp(pass, a, b) == IF pass = "temperature" THEN temperature_cmp(a, b) ELSE name_cmp(a, b)

\* slice::sort_by, a stable sort: an element goes behind every element that
\* does not compare greater than it.
RECURSIVE sort_by(_, _)
sort_by(v, pass) ==
    IF Len(v) <= 1 THEN v
    ELSE LET n == Len(v)
             s == sort_by(SubSeq(v, 1, n - 1), pass)
             x == v[n]
             k == Cardinality({i \in 1..(n - 1) : Cmp(pass, x, s[i]) # "Less"})
         IN SubSeq(s, 1, k) \o <<x>> \o SubSeq(s, k + 1, n - 1)

\* The passes in the other order: names first, temperatures last.
sort_passes_swapped(temperature_vec) ==
    sort_by(sort_by(temperature_vec, "name"), "temperature")

\* The temperature pass, then the name pass.
sort_passes(temperature_vec) ==
    sort_by(sort_by(temperature_vec, "temperature"), "name")

-----------------------------------------------------------------------------
(* SpecTemp: the sort passes applied to every list of rows *)

InitTemp ==
    /\ chan = IdleChan
    /\ threads = IdleThreads
    /\ hist = IdleHist
    /\ pc = "temperature"
    /\ app = NewApp
    /\ iter = IdleIter
    /\ \E v \in SeqsUpTo(TempHarvest, MaxTemps) : temp = [in |-> v, out |-> <<>>]
    /\ inp = IdleInp
    /\ st = IdleSt

GetTemperatureData ==
    /\ pc = "temperature"
    /\ temp' = [temp EXCEPT !.out = sort_passes(temp.in)]
    /\ pc' = "temperature_done"
    /\ UNCHANGED <<chan, threads, hist, app, iter, inp, st>>

NextTemp == GetTemperatureData

SpecTemp == InitTemp /\ [][NextTemp]_vars

IsPermutation(s, t) ==
    /\ Len(s) = Len(t)
    /\ \A x \in Range(s) \cup Range(t) :
          Cardinality({i \in 1..Len(s) : s[i] = x}) =
          Cardinality({i \in 1..Len(t) : t[i] = x})

-----------------------------------------------------------------------------
(* The input thread *)
(* A timer is held as the whole milliseconds since the Instant it stores,    *)
(* Instant::now().duration_since(timer).as_millis(), which is all the thread *)
(* reads of it; the value stops growing at MaxElapsed.                       *)

Classes == {"key", "mouse"}

DebounceMillis == 20

Min(x, y) == IF x < y THEN x ELSE y

timer_of(c) == IF c = "key" THEN inp.keyboard_timer ELSE inp.mouse_timer

\* The test without the timer: every event is sent on.
debounce_off(since_timer) == since_timer >= 0

\* The test in front of both sends.
debounce_passed(since_timer) == since_timer >= DebounceMillis

\* History of the input thread for one class, iter.obs: the milliseconds
\* since its last forwarded event was read (-1: none yet; it stops growing at
\* GapCap), the milliseconds since its last event was read (-1: none yet, or
\* more than AgeCap), whether that event was forwarded, how many of its last
\* two events were forwarded if they were read 5 ms apart (-1 if they were
\* not), and the time from its last forwarded event but one to the last
\* (-1: fewer than two).
AgeCap == 5
GapCap == 21

InputHist0(c) == [obs |-> c, since_fwd |-> -1, age |-> -1, last_fwd |-> FALSE,
                  pair |-> -1, gap |-> -1]

PairCount(forwarded) ==
    IF iter.age = 5
    THEN (IF iter.last_fwd THEN 1 ELSE 0) + (IF forwarded THEN 1 ELSE 0)
    ELSE -1

\* d milliseconds pass.
Elapse(i, d) ==
    [i EXCEPT !.keyboard_timer = Min(@ + d, MaxElapsed),
              !.mouse_timer = Min(@ + d, MaxElapsed)]

ElapseHist(h, d) ==
    [h EXCEPT !.since_fwd = IF @ = -1 THEN -1 ELSE Min(@ + d, GapCap),
              !.age = IF @ = -1 \/ @ + d > AgeCap THEN -1 ELSE @ + d]

\* One timer for both classes: a forward of either sets both.
timer_reset_both(i, c, d) ==
    [Elapse(i, d) EXCEPT !.keyboard_timer = 0, !.mouse_timer = 0]

\* keyboard_timer = Instant::now() or mouse_timer = Instant::now() after the
\* send, d ms after the test read the clock: the other timer runs on.
timer_reset(i, c, d) ==
    IF c = "key"
    THEN [Elapse(i, d) EXCEPT !.keyboard_timer = 0]
    ELSE [Elapse(i, d) EXCEPT !.mouse_timer = 0]

\* A thread that goes on reading after a send failed.
on_send_result_goes_on(is_err) == "input_loop"

\* if tx.send(..).is_err() { return; }
on_send_result(is_err) == IF is_err THEN "input_returned" ELSE "input_loop"

\* The thread starts: both timers are Instant::now().
InitInput ==
    /\ chan = IdleChan
    /\ threads = IdleThreads
    /\ hist = IdleHist
    /\ pc = "input_loop"
    /\ inp = [keyboard_timer |-> 0, mouse_timer |-> 0, rx_alive |-> TRUE]
    /\ \E c \in Classes : iter = InputHist0(c)
    /\ app = NewApp
    /\ temp = IdleTemp
    /\ st = IdleSt

\* A millisecond passes while the thread waits in event::read().
Tick ==
    /\ pc = "input_loop"
    /\ inp' = Elapse(inp, 1)
    /\ iter' = ElapseHist(iter, 1)
    /\ <<inp', iter'>> # <<inp, iter>>
    /\ UNCHANGED <<chan, threads, hist, pc, app, temp, st>>

\* event::read() returns a key or a mouse event and the send succeeds: the
\* class's timer is set to the Instant::now() taken after the send, d ms
\* after the one the test read.
InputForward(c, d) ==
    /\ pc = "input_loop"
    /\ debounce_passed(timer_of(c))
    /\ inp.rx_alive
    /\ inp' = timer_reset(inp, c, d)
    /\ iter' = IF c = iter.obs
               THEN [iter EXCEPT !.gap = iter.since_fwd,
                                 !.since_fwd = d,
                                 !.age = d,
                                 !.last_fwd = TRUE,
                                 !.pair = PairCount(TRUE)]
               ELSE ElapseHist(iter, d)
    /\ UNCHANGED <<chan, threads, hist, pc, app, temp, st>>

\* The event was read, and not forwarded.
NotForwarded(c) ==
    IF c = iter.obs
    THEN [iter EXCEPT !.age = 0, !.last_fwd = FALSE, !.pair = PairCount(FALSE)]
    ELSE iter

\* The event comes too early after the class's timer: it is dropped.
InputDrop(c) ==
    /\ pc = "input_loop"
    /\ ~debounce_passed(timer_of(c))
    /\ iter' = NotForwarded(c)
    /\ UNCHANGED <<chan, threads, hist, pc, inp, app, temp, st>>

\* The send fails, the receiver being gone: the thread returns.
InputSendFails(c) ==
    /\ pc = "input_loop"
    /\ debounce_passed(timer_of(c))
    /\ ~inp.rx_alive
    /\ pc' = on_send_result(TRUE)
    /\ iter' = NotForwarded(c)
    /\ UNCHANGED <<chan, threads, hist, inp, app, temp, st>>

\* main leaves its loop and returns: rx is dropped.
ReceiverDropped ==
    /\ pc = "input_loop"
    /\ inp.rx_alive
    /\ inp' = [inp EXCEPT !.rx_alive = FALSE]
    /\ UNCHANGED <<chan, threads, hist, pc, app, iter, temp, st>>

NextInput ==
    \/ Tick
    \/ \E c \in Classes, d \in {0, 1} : InputForward(c, d)
    \/ \E c \in Classes : InputDrop(c)
    \/ \E c \in Classes : InputSendFails(c)
    \/ ReceiverDropped

SpecInput == InitInput /\ [][NextInput]_vars

\* Consecutive forwarded events of the observed class are at least 20 ms
\* apart: an event is forwarded only that long after the one before.
ForwardsApart == iter.gap # -1 => iter.gap >= DebounceMillis

\* C5 as stated: forwarded events of a class are at least 20 ms apart, and of
\* two events of the class read 5 ms apart exactly one is forwarded.
C5_ExactlyOne ==
    pc \in {"input_loop", "input_returned"} =>
        /\ ForwardsApart
        /\ iter.pair # -1 => iter.pair = 1

\* C5, amended: forwarded events of a class are at least 20 ms apart, and of
\* two events of the class read 5 ms apart at most one is forwarded (none if
\* the second, too, is read less than 20 ms after the class's timer was set,
\* or if its send fails).
C5_Debounce ==
    pc \in {"input_loop", "input_returned"} =>
        /\ ForwardsApart
        /\ iter.pair # -1 => iter.pair \in {0, 1}
        /\ (iter.pair = 0 /\ iter.age = 0 /\ pc = "input_loop")
              => ~debounce_passed(timer_of(iter.obs))

\* Two events were forwarded 20 ms apart, then an event read 5 ms after the
\* second was dropped.
C5_Witness ==
    /\ pc = "input_loop"
    /\ iter.gap = DebounceMillis
    /\ iter.pair = 1
    /\ iter.age = 0
    /\ ~iter.last_fwd

\* A step in which an event of the observed class is read and not
\* forwarded (it is dropped, or its send fails), as the history shows it.
ObsNotForwarded ==
    /\ pc = "input_loop"
    /\ iter'.age = 0
    /\ ~iter'.last_fwd
    /\ iter' # iter

\* A step in which an event of class c is forwarded: only that sets a timer
\* back.
Forwards(c) ==
    IF c = "key" THEN inp'.keyboard_timer < inp.keyboard_timer
    ELSE inp'.mouse_timer < inp.mouse_timer

\* C14: the input thread returns only at a send that fails, the receiver
\* being gone, and returns at the first such send; an event dropped by the
\* debounce leaves it running, as does every send that succeeds; once it
\* has returned it does nothing more.
C14_InputShutdown ==
    [][/\ (pc = "input_loop" /\ pc' # "input_loop") =>
             /\ pc' = "input_returned"
             /\ ~inp.rx_alive
             /\ \E c \in Classes : debounce_passed(timer_of(c))
             /\ inp' = inp
       /\ (ObsNotForwarded /\ debounce_passed(timer_of(iter.obs))) =>
             (~inp.rx_alive /\ pc' = "input_returned")
       /\ (ObsNotForwarded /\ ~debounce_passed(timer_of(iter.obs))) =>
             pc' = "input_loop"
       /\ (pc = "input_loop" /\ \E c \in Classes : Forwards(c)) =>
             pc' = "input_loop"
       /\ pc = "input_returned" => UNCHANGED vars]_vars

\* The thread forwarded two events, the receiver went, and the next event
\* that passed the debounce ended the thread.
C14_Witness ==
    /\ pc = "input_returned"
    /\ ~inp.rx_alive
    /\ iter.gap # -1
    /\ iter.age = 0
    /\ ~iter.last_fwd
    /\ debounce_passed(timer_of(iter.obs))

Other(c) == IF c = "key" THEN "mouse" ELSE "key"

timer_after(c) == IF c = "key" THEN inp'.keyboard_timer ELSE inp'.mouse_timer

\* C17: an event is forwarded only when at least 20 ms have passed since
\* its class's timer, and, the receiver being there, whenever they have; a
\* timer is set back only by a forward of its own class; a dropped event
\* moves no timer; a forward of one class leaves the other class's timer
\* running.  The timers start with the thread: until a class has a forward
\* its timer is the older of the two.
C17_ExactDebounce ==
    /\ [][\A c \in Classes : Forwards(c) =>
             /\ debounce_passed(timer_of(c))
             /\ inp.rx_alive
             /\ timer_after(c) = 0
             /\ timer_after(Other(c)) >= timer_of(Other(c))
             /\ timer_after(Other(c)) <= timer_of(Other(c)) + 1]_vars
    /\ [][ObsNotForwarded =>
             /\ inp' = inp
             /\ inp.rx_alive => ~debounce_passed(timer_of(iter.obs))]_vars
    /\ [](iter.since_fwd = -1 =>
             timer_of(iter.obs) >= timer_of(Other(iter.obs)))

\* An event of the observed class was dropped 5 ms after the thread started,
\* nothing of its class having been forwarded.
C17_Witness ==
    /\ pc = "input_loop"
    /\ iter.since_fwd = -1
    /\ iter.age = 0
    /\ ~iter.last_fwd
    /\ timer_of(iter.obs) = 5
    /\ timer_of(Other(iter.obs)) = 5

-----------------------------------------------------------------------------
(* Startup: the refresh rate, the terminal, the two threads *)

\* A u128 is held as hi * 2^64 + lo.
U128(hi, lo) == [hi |-> hi, lo |-> lo]

MinRateMillis == 250
DefaultRefreshRateMillis == 1000

\* What --rate may be given: text that parses as a u128, or text that does not.
RateLo == {0, 1, 100, 249, 250, 251, 500, 1000, 2000}
RateArgs == {[ok |-> TRUE, value |-> U128(hi, lo)] : hi \in {0, 1}, lo \in RateLo}
                \cup {[ok |-> FALSE, value |-> U128(0, 0)]}

\* update_rate_in_milliseconds as u64
as_u64(rate) == rate.lo

\* The test with "<=" for "<": 250 ms is refused too.
rate_error_at_250(rate) ==
    IF rate.hi = 0 /\ rate.lo <= MinRateMillis THEN "Err(InvalidArg)"
    ELSE IF rate.hi > 0 THEN "Err(InvalidArg)"
    ELSE "none"

\* The two tests on update_rate_in_milliseconds: below 250, above u64::MAX.
rate_error(rate) ==
    IF rate.hi = 0 /\ rate.lo < MinRateMillis THEN "Err(InvalidArg)"
    ELSE IF rate.hi > 0 THEN "Err(InvalidArg)"
    ELSE "none"

\* main with the terminal set up before the rate is checked.
step_after_terminal_first(step) ==
    CASE step = "parse_rate" -> "setup_terminal"
      [] step = "setup_terminal" -> "check_rate"
      [] step = "check_rate" -> "spawn_input"
      [] step = "spawn_input" -> "spawn_harvester"
      [] step = "spawn_harvester" -> "event_loop"

\* The order of main's steps before its loop.
step_after(step) ==
    CASE step = "parse_rate" -> "check_rate"
      [] step = "check_rate" -> "setup_terminal"
      [] step = "setup_terminal" -> "spawn_input"
      [] step = "spawn_input" -> "spawn_harvester"
      [] step = "spawn_harvester" -> "event_loop"

InitStart ==
    /\ chan = IdleChan
    /\ threads = IdleThreads
    /\ hist = IdleHist
    /\ pc = "parse_rate"
    /\ \E a \in {None} \cup {Some(x) : x \in RateArgs} :
          st = [IdleSt EXCEPT !.rate_millis = a]
    /\ app = NewApp
    /\ iter = IdleIter
    /\ temp = IdleTemp
    /\ inp = IdleInp

\* RATE_MILLIS is parsed if present; the default is taken if not.
ParseRate ==
    /\ pc = "parse_rate"
    /\ IF ~st.rate_millis.some
       THEN /\ st' = [st EXCEPT !.update_rate_in_milliseconds =
                                    Some(U128(0, DefaultRefreshRateMillis))]
            /\ pc' = step_after("parse_rate")
       ELSE IF st.rate_millis.val.ok
       THEN /\ st' = [st EXCEPT !.update_rate_in_milliseconds =
                                    Some(st.rate_millis.val.value)]
            /\ pc' = step_after("parse_rate")
       ELSE /\ st' = [st EXCEPT !.result = "Err(ParseIntError)"]
            /\ pc' = "returned"
    /\ UNCHANGED <<chan, threads, hist, app, iter, temp, inp>>

CheckRate ==
    /\ pc = "check_rate"
    /\ LET e == rate_error(st.update_rate_in_milliseconds.val)
       IN IF e # "none"
          THEN /\ st' = [st EXCEPT !.result = e]
               /\ pc' = "returned"
          ELSE /\ pc' = step_after("check_rate")
               /\ UNCHANGED st
    /\ UNCHANGED <<chan, threads, hist, app, iter, temp, inp>>

\* enable_raw_mode and the calls after it; each may fail and end main.
SetupTerminal ==
    /\ pc = "setup_terminal"
    /\ \/ /\ st' = [st EXCEPT !.raw_mode = TRUE]
          /\ pc' = step_after("setup_terminal")
       \/ /\ st' = [st EXCEPT !.result = "Err(io)"]
          /\ pc' = "returned"
    /\ UNCHANGED <<chan, threads, hist, app, iter, temp, inp>>

SpawnInput ==
    /\ pc = "spawn_input"
    /\ st' = [st EXCEPT !.input_thread = TRUE]
    /\ pc' = step_after("spawn_input")
    /\ UNCHANGED <<chan, threads, hist, app, iter, temp, inp>>

SpawnHarvester ==
    /\ pc = "spawn_harvester"
    /\ st' = [st EXCEPT !.harvester = "try_recv"]
    /\ pc' = step_after("spawn_harvester")
    /\ UNCHANGED <<chan, threads, hist, app, iter, temp, inp>>

\* One step of the harvester's cycle: try_recv, update_data, send, sleep.
HarvesterStep ==
    /\ pc = "event_loop"
    /\ st.harvester \in {"try_recv", "update_data", "send", "sleep"}
    /\ st' = CASE st.harvester = "try_recv" -> [st EXCEPT !.harvester = "update_data"]
                [] st.harvester = "update_data" -> [st EXCEPT !.harvester = "send"]
                [] st.harvester = "send" ->
                     [st EXCEPT !.harvester = "sleep",
                                !.slept = as_u64(st.update_rate_in_milliseconds.val)]
                [] st.harvester = "sleep" -> [st EXCEPT !.harvester = "try_recv"]
    /\ UNCHANGED <<chan, threads, hist, pc, app, iter, temp, inp>>

NextStart ==
    \/ ParseRate
    \/ CheckRate
    \/ SetupTerminal
    \/ SpawnInput
    \/ SpawnHarvester
    \/ HarvesterStep

SpecStart == InitStart /\ [][NextStart]_vars

RateGiven == st.rate_millis.some /\ st.rate_millis.val.ok
RateValue == st.rate_millis.val.value

\* C4: once the rate is checked, a rate below 250 has ended main with
\* InvalidArg and a rate of exactly 250 has not ended it with an error of
\* the rate; the harvester sleeps the accepted rate, never less than 250 ms.
C4_RateBoundary ==
    /\ (RateGiven /\ pc \notin {"parse_rate", "check_rate"}) =>
          /\ (RateValue.hi = 0 /\ RateValue.lo < 250) =>
                (pc = "returned" /\ st.result = "Err(InvalidArg)")
          /\ (RateValue.hi = 0 /\ RateValue.lo = 250) =>
                st.result \notin {"Err(InvalidArg)", "Err(ParseIntError)"}
    /\ st.harvester # "unspawned" =>
          /\ st.update_rate_in_milliseconds.val.hi = 0
          /\ st.update_rate_in_milliseconds.val.lo >= 250
    /\ st.slept # -1 =>
          /\ st.slept >= 250
          /\ st.update_rate_in_milliseconds.val = U128(0, st.slept)

\* --rate 250 was accepted and the harvester sleeps 250 ms.
C4_Witness ==
    /\ RateGiven
    /\ RateValue = U128(0, 250)
    /\ st.harvester = "sleep"
    /\ st.slept = 250


RateRejected ==
    /\ RateGiven
    /\ RateValue.hi > 0 \/ RateValue.lo < 250

NothingStarted ==
    /\ ~st.raw_mode
    /\ ~st.input_thread
    /\ st.harvester = "unspawned"
    /\ pc # "event_loop"

\* C16: a refresh rate that is rejected never has the terminal in raw mode,
\* a thread spawned or the event loop entered, and when main has returned
\* the configuration error none of these has happened.
C16_ErrorBeforeSetup ==
    /\ RateRejected => NothingStarted
    /\ st.result = "Err(InvalidArg)" =>
          (pc = "returned" /\ RateRejected /\ NothingStarted)
    /\ (RateRejected /\ pc \notin {"parse_rate", "check_rate"}) =>
          (pc = "returned" /\ st.result = "Err(InvalidArg)")

\* --rate 249: main has returned InvalidArg and nothing was set up.
C16_Witness ==
    /\ pc = "returned"
    /\ st.result = "Err(InvalidArg)"
    /\ RateGiven
    /\ RateValue = U128(0, 249)
    /\ NothingStarted

-----------------------------------------------------------------------------
(* The App struct's methods *)

is_grouped(a) == a.enable_grouping
is_in_search_widget(a) == a.in_search

\* A sort key is chosen: the same key again flips the direction.
set_sorting(a, sorting_type) ==
    IF a.process_sorting_type = sorting_type
    THEN [a EXCEPT !.process_sorting_reverse = ~@, !.update_process_gui = TRUE]
    ELSE [a EXCEPT !.process_sorting_type = sorting_type,
                   !.process_sorting_reverse = (sorting_type = "CPU"),
                   !.update_process_gui = TRUE]

toggle_grouping(a) ==
    [a EXCEPT !.enable_grouping = ~@, !.update_process_gui = TRUE]

\* A character: text of the query in the search widget; elsewhere 'f'
\* toggles freeze and 'c', 'p' choose the sort key.
on_char_key(a, character) ==
    IF is_in_search_widget(a)
    THEN [a EXCEPT !.current_search_query = Append(@, character),
                   !.update_process_gui = TRUE]
    ELSE CASE character = "f" -> [a EXCEPT !.is_frozen = ~@]
           [] character = "c" -> set_sorting(a, "CPU")
           [] character = "p" -> set_sorting(a, "PID")
           [] OTHER -> a

on_tab(a) == IF is_in_search_widget(a) THEN a ELSE toggle_grouping(a)

on_esc(a) == [a EXCEPT !.in_search = FALSE]

on_backspace(a) ==
    IF is_in_search_widget(a) /\ a.current_search_query # <<>>
    THEN [a EXCEPT !.current_search_query = SubSeq(@, 1, Len(@) - 1),
                   !.update_process_gui = TRUE]
    ELSE a

enable_searching(a) == [a EXCEPT !.in_search = TRUE]

\* The search widget's target becomes the pid; the table is to be recomputed.
search_with_pid(a) ==
    IF is_in_search_widget(a) /\ ~a.is_searching_with_pid
    THEN [a EXCEPT !.is_searching_with_pid = TRUE, !.update_process_gui = TRUE]
    ELSE a

\* App::reset: the collected history is cleared.
reset(a) == [a EXCEPT !.data_collection = 0]

\* The App method of the given name applied to a.
Invoke(a, action, character) ==
    CASE action = "on_char_key" -> on_char_key(a, character)
      [] action = "on_tab" -> on_tab(a)
      [] action = "on_esc" -> on_esc(a)
      [] action = "on_backspace" -> on_backspace(a)
      [] action = "enable_searching" -> enable_searching(a)
      [] action = "search_with_pid" -> search_with_pid(a)
      [] action = "reset" -> reset(a)
      [] OTHER -> a

-----------------------------------------------------------------------------
(* Messages of the merge loop *)

Chars == {"q", "f", "c", "p", "r"}
KeyCodes == Chars \cup {"Tab", "Esc", "Backspace"}
KeyModifiers == {{}, {"CONTROL"}, {"SHIFT"}, {"ALT"}, {"CONTROL", "SHIFT"}}
MouseEvents == {"ScrollUp", "ScrollDown", "Down"}

\* The snapshots the harvester sends in the model.
Proc(pid, name, cpu, mem) ==
    [pid |-> pid, name |-> name, cpu_usage_percent |-> cpu,
     mem_usage_percent |-> mem, pid_vec |-> None]

Payloads ==
    {[readings |-> 1,
      list_of_processes |-> <<Proc(1, "a", 1, 2), Proc(2, "q", 5, 1), Proc(3, "a", 1, 2)>>,
      grouped_list_of_processes |-> None],
     [readings |-> 2,
      list_of_processes |-> <<Proc(2, "q", 5, 1), Proc(1, "a", 1, 2)>>,
      grouped_list_of_processes |-> None]}

NoMsg == [kind |-> "none", code |-> "", modifiers |-> {}, event |-> "",
          data |-> DefaultData]
Timeout == [NoMsg EXCEPT !.kind = "Timeout"]
KeyInput(code, modifiers) ==
    [NoMsg EXCEPT !.kind = "KeyInput", !.code = code, !.modifiers = modifiers]
MouseInput(event) == [NoMsg EXCEPT !.kind = "MouseInput", !.event = event]
Update(data) == [NoMsg EXCEPT !.kind = "Update", !.data = data]

-----------------------------------------------------------------------------
(* The merge loop of main *)

\* The KeyInput arm up to the test of update_process_gui: whether the loop
\* breaks, and the App method called with its character.
Dispatched(quit, action, character) ==
    [quit |-> quit, action |-> action, character |-> character]

\* The quit test without the search-widget exception.
quit_on_q_always(event, a) == event.code = "q"

\* An unmodified 'q' breaks the loop unless the search widget has the input.
quit_on_q(event, a) == event.code = "q" /\ ~is_in_search_widget(a)

\* The dispatch with CONTROL tested as one of the modifiers held, not as the
\* only one.
key_dispatch_any_control(event, a) ==
    IF event.modifiers = {}
    THEN IF quit_on_q(event, a) THEN Dispatched(TRUE, "none", "")
         ELSE CASE event.code \in Chars -> Dispatched(FALSE, "on_char_key", event.code)
                [] event.code = "Esc" -> Dispatched(FALSE, "on_esc", "")
                [] event.code = "Tab" -> Dispatched(FALSE, "on_tab", "")
                [] event.code = "Backspace" -> Dispatched(FALSE, "on_backspace", "")
                [] OTHER -> Dispatched(FALSE, "none", "")
    ELSE IF "CONTROL" \in event.modifiers
    THEN CASE event.code = "c" -> Dispatched(TRUE, "none", "")
           [] event.code = "f" -> Dispatched(FALSE, "enable_searching", "")
           [] event.code = "p" -> Dispatched(FALSE, "search_with_pid", "")
           [] event.code = "r" -> Dispatched(FALSE, "reset", "")
           [] OTHER -> Dispatched(FALSE, "none", "")
    ELSE Dispatched(FALSE, "none", "")

\* The KeyInput arm's choice: break, or the App method and its character.
key_dispatch(event, a) ==
    IF event.modifiers = {}
    THEN IF quit_on_q(event, a) THEN Dispatched(TRUE, "none", "")
         ELSE CASE event.code \in Chars -> Dispatched(FALSE, "on_char_key", event.code)
                [] event.code = "Esc" -> Dispatched(FALSE, "on_esc", "")
                [] event.code = "Tab" -> Dispatched(FALSE, "on_tab", "")
                [] event.code = "Backspace" -> Dispatched(FALSE, "on_backspace", "")
                [] OTHER -> Dispatched(FALSE, "none", "")
    ELSE IF event.modifiers = {"CONTROL"}
    THEN CASE event.code = "c" -> Dispatched(TRUE, "none", "")
           [] event.code = "f" -> Dispatched(FALSE, "enable_searching", "")
           [] event.code = "p" -> Dispatched(FALSE, "search_with_pid", "")
           [] event.code = "r" -> Dispatched(FALSE, "reset", "")
           [] OTHER -> Dispatched(FALSE, "none", "")
    ELSE Dispatched(FALSE, "none", "")

\* The test of update_process_gui left out: the table is not recomputed.
recompute_never(a) == a

\* if app.update_process_gui { handle_process_sorting; flag = false }
recompute_if_dirty(a) ==
    IF a.update_process_gui
    THEN [handle_process_sorting(a) EXCEPT !.update_process_gui = FALSE]
    ELSE a

\* The Update arm with the freeze test left out.
apply_update_always(a, data) ==
    LET eaten == [a EXCEPT !.data_collection = data.readings, !.data = data,
                           !.canvas_data.snapshot = data.readings]
    IN handle_process_sorting(eaten)

\* The Update arm: eat_data, app.data = *data, the projections of
\* data_collection, handle_process_sorting; nothing while frozen.
apply_update(a, data) ==
    IF ~a.is_frozen
    THEN LET eaten == [a EXCEPT !.data_collection = data.readings, !.data = data,
                                !.canvas_data.snapshot = data.readings]
         IN handle_process_sorting(eaten)
    ELSE a

\* The loop without the substitution.
fix_pid_sorting_never(a) == a

\* PID is no sort key of a grouped table: back to CPU, descending.
fix_pid_sorting(a) ==
    IF a.process_sorting_type = "PID" /\ is_grouped(a)
    THEN [a EXCEPT !.process_sorting_type = "CPU", !.process_sorting_reverse = TRUE]
    ELSE a

\* A loop that goes back to recv_timeout when no message came.
after_recv_skips_draw(kind, quit) ==
    IF quit THEN "cleanup" ELSE IF kind = "Timeout" THEN "recv" ELSE "draw"

\* Where the loop goes from recv_timeout: out by break, or on to the draw.
after_recv(kind, quit) == IF quit THEN "cleanup" ELSE "draw"

\* History of one iteration: the message received, update_process_gui as the
\* arm left it before its test, whether handle_process_sorting ran, the App
\* method called and its character; how rtx.send ended if it was called; and
\* whether an Update has been discarded since the last iteration that
\* applied one.
Iter0 == [msg |-> NoMsg, dirty |-> FALSE, engine |-> FALSE, action |-> "none",
          character |-> "", rtx_send |-> "none", discarded |-> FALSE]

\* Ctrl+R with app.reset() called whether or not the request was enqueued.
reset_always(action, sent) == action

\* if rtx.send(ResetEvent::Reset).is_ok() { app.reset() }: the App method
\* that is called, given whether the send succeeded.
reset_if_sent(action, sent) ==
    IF action = "reset" /\ ~sent THEN "none" ELSE action

\* How a call of cleanup can end: every step succeeds, disable_raw_mode
\* fails, or a later step fails.
CleanupOutcomes == {"Ok", "Err(disable_raw_mode)", "Err(execute)"}

\* cleanup(&mut terminal): raw mode is left unless disable_raw_mode fails;
\* the first step that fails ends it with that error.
cleanup(s, outcome) ==
    [s EXCEPT !.cleanups = @ + 1,
              !.raw_mode = (outcome = "Err(disable_raw_mode)"),
              !.result = IF outcome = "Ok" THEN @ ELSE "Err(io)"]

\* A draw error returned with the terminal left as it is.
on_draw_error_no_cleanup(s, outcome) ==
    [s EXCEPT !.exit = "draw_error", !.result = "Err(draw)"]

\* cleanup(&mut terminal)?; return Err(err): cleanup's error, if it has one,
\* is what main returns.
on_draw_error(s, outcome) ==
    LET cleaned == cleanup([s EXCEPT !.exit = "draw_error"], outcome)
    IN IF outcome = "Ok" THEN [cleaned EXCEPT !.result = "Err(draw)"] ELSE cleaned

\* cleanup(&mut terminal)?; Ok(())
on_break(s, outcome) ==
    LET cleaned == cleanup([s EXCEPT !.exit = "break"], outcome)
    IN IF outcome = "Ok" THEN [cleaned EXCEPT !.result = "Ok"] ELSE cleaned

\* main at its event loop: the terminal is in raw mode, both threads run.
LoopSt == [IdleSt EXCEPT !.update_rate_in_milliseconds =
                             Some(U128(0, DefaultRefreshRateMillis)),
                         !.raw_mode = TRUE, !.input_thread = TRUE,
                         !.harvester = "try_recv"]

\* main reaches its loop: App::new, --group and --simple_search applied.
Init ==
    /\ chan = IdleChan
    /\ threads = IdleThreads
    /\ hist = IdleHist
    /\ pc = "recv"
    /\ \E g \in BOOLEAN, u \in BOOLEAN :
          app = [(IF g THEN toggle_grouping(NewApp) ELSE NewApp) EXCEPT !.use_simple = u]
    /\ iter = Iter0
    /\ temp = IdleTemp
    /\ inp = IdleInp
    /\ st = LoopSt

\* recv_timeout returns no message: on to the substitution and the draw.
RecvTimeout ==
    /\ pc = "recv"
    /\ app' = fix_pid_sorting(app)
    /\ iter' = [iter EXCEPT !.msg = Timeout]
    /\ pc' = after_recv("Timeout", FALSE)
    /\ UNCHANGED <<chan, threads, hist, temp, inp, st>>

\* A KeyInput: break, or the App method, the recompute if the flag is set,
\* the substitution.  sent: whether rtx.send succeeded; it is called on
\* Ctrl+R only.
RecvKeyInput(event, sent) ==
    /\ pc = "recv"
    /\ LET d == key_dispatch(event, app)
           action == reset_if_sent(d.action, sent)
           acted == Invoke(app, action, d.character)
       IN /\ d.action = "reset" \/ sent
          /\ Len(acted.current_search_query) <= MaxQuery
          /\ pc' = after_recv("KeyInput", d.quit)
          /\ IF d.quit
             THEN /\ iter' = [iter EXCEPT !.msg = KeyInput(event.code, event.modifiers)]
                  /\ UNCHANGED app
             ELSE /\ app' = fix_pid_sorting(recompute_if_dirty(acted))
                  /\ iter' = [iter EXCEPT
                                !.msg = KeyInput(event.code, event.modifiers),
                                !.dirty = acted.update_process_gui,
                                !.engine = recompute_if_dirty(acted) # acted,
                                !.action = action,
                                !.character = d.character,
                                !.rtx_send = IF d.action # "reset" THEN "none"
                                             ELSE IF sent THEN "Ok" ELSE "Err"]
    /\ UNCHANGED <<chan, threads, hist, temp, inp, st>>

\* A MouseInput: the scroll position, which the model does not hold.
RecvMouseInput(event) ==
    /\ pc = "recv"
    /\ app' = fix_pid_sorting(app)
    /\ iter' = [iter EXCEPT
                  !.msg = MouseInput(event),
                  !.action = CASE event = "ScrollUp" -> "decrement_position_count"
                               [] event = "ScrollDown" -> "increment_position_count"
                               [] OTHER -> "none"]
    /\ pc' = after_recv("MouseInput", FALSE)
    /\ UNCHANGED <<chan, threads, hist, temp, inp, st>>

\* An Update: applied unless frozen.
RecvUpdate(data) ==
    /\ pc = "recv"
    /\ app' = fix_pid_sorting(apply_update(app, data))
    /\ iter' = [iter EXCEPT !.msg = Update(data),
                            !.engine = ~app.is_frozen,
                            !.discarded = @ \/ app.is_frozen]
    /\ pc' = after_recv("Update", FALSE)
    /\ UNCHANGED <<chan, threads, hist, temp, inp, st>>

\* canvas::draw_data succeeds: the next iteration.
DrawOk ==
    /\ pc = "draw"
    /\ pc' = "recv"
    /\ iter' = [Iter0 EXCEPT !.discarded =
                    iter.discarded /\ ~(iter.msg.kind = "Update" /\ iter.engine)]
    /\ UNCHANGED <<chan, threads, hist, app, temp, inp, st>>

\* canvas::draw_data fails: cleanup, and main returns an error.  main's
\* locals are gone at the return: app and iter hold their first values.
DrawErr ==
    /\ pc = "draw"
    /\ \E outcome \in CleanupOutcomes : st' = on_draw_error(st, outcome)
    /\ pc' = "returned_err"
    /\ app' = NewApp
    /\ iter' = Iter0
    /\ UNCHANGED <<chan, threads, hist, temp, inp>>

\* After the break: cleanup, and main returns Ok unless cleanup failed.
Cleanup ==
    /\ pc = "cleanup"
    /\ \E outcome \in CleanupOutcomes :
          /\ st' = on_break(st, outcome)
          /\ pc' = IF outcome = "Ok" THEN "returned_ok" ELSE "returned_err"
    /\ app' = NewApp
    /\ iter' = Iter0
    /\ UNCHANGED <<chan, threads, hist, temp, inp>>

Next ==
    \/ RecvTimeout
    \/ \E code \in KeyCodes, modifiers \in KeyModifiers, sent \in BOOLEAN :
          RecvKeyInput([code |-> code, modifiers |-> modifiers], sent)
    \/ \E event \in MouseEvents : RecvMouseInput(event)
    \/ \E data \in Payloads : RecvUpdate(data)
    \/ DrawOk
    \/ DrawErr
    \/ Cleanup

Spec == Init /\ [][Next]_vars

\* One iteration's handling of a message of the given kind: the step from
\* recv_timeout to the draw.
Handled(kind) == pc = "recv" /\ pc' = "draw" /\ iter'.msg.kind = kind

\* C1: while frozen, handling an Update leaves app.data, the collection's
\* state and the canvas data as they were, however many Updates arrive; once
\* unfrozen, the next Update handled replaces the snapshot with its payload
\* (the process list as the engine reorders it), feeds the collection and
\* refreshes the canvas data.
C1_Freeze ==
    [][Handled("Update") =>
         LET data == iter'.msg.data
         IN IF app.is_frozen
            THEN /\ app'.data = app.data
                 /\ app'.data_collection = app.data_collection
                 /\ app'.canvas_data = app.canvas_data
            ELSE /\ app'.data.readings = data.readings
                 /\ IsPermutation(app'.data.list_of_processes,
                                  data.list_of_processes)
                 /\ app'.data_collection = data.readings
                 /\ app'.canvas_data.snapshot = data.readings
                 /\ IsPermutation(app'.canvas_data.process_data,
                                  SelectSeq(data.list_of_processes,
                                     LAMBDA r : RowMatches(r,
                                                   app.current_search_query,
                                                   app.is_searching_with_pid)))]_vars

\* An Update applied after the freeze ended, Updates having been discarded
\* in between: the snapshot is the payload's, not the one held while frozen.
C1_Witness ==
    /\ pc = "draw"
    /\ iter.msg.kind = "Update"
    /\ iter.discarded
    /\ ~app.is_frozen
    /\ app.data.readings = 2
    /\ app.canvas_data.snapshot = 2

QuitKey(msg) ==
    /\ msg.kind = "KeyInput"
    /\ \/ msg.code = "q" /\ msg.modifiers = {}
       \/ msg.code = "c" /\ msg.modifiers = {"CONTROL"}

\* C7: every iteration of the merge loop that does not break on a quit key
\* reaches the draw, the iteration whose receive timed out included.
C7_AlwaysDraws ==
    [][pc = "recv" =>
         /\ pc' \in {"draw", "cleanup"}
         /\ pc' = "cleanup" => QuitKey(iter'.msg)
         /\ iter'.msg.kind = "Timeout" => pc' = "draw"]_vars

\* The draw is reached with no message received.
C7_Witness ==
    /\ pc = "draw"
    /\ iter.msg = Timeout
    /\ app.data.readings = 1

\* C8: an unmodified 'q' ends the loop exactly when the search widget does
\* not have the input; when it has, the same key goes to on_char_key as the
\* character 'q' and the loop goes on to the draw.
C8_QuitIntercepted ==
    [][(pc = "recv" /\ pc' # "recv" /\ iter'.msg = KeyInput("q", {})) =>
         IF is_in_search_widget(app)
         THEN /\ pc' = "draw"
              /\ iter'.action = "on_char_key"
              /\ iter'.character = "q"
              /\ app'.current_search_query = Append(app.current_search_query, "q")
         ELSE /\ pc' = "cleanup"
              /\ app' = app]_vars

\* 'q' typed into the search widget: it is in the query and the loop draws.
C8_Witness ==
    /\ pc = "draw"
    /\ iter.msg = KeyInput("q", {})
    /\ is_in_search_widget(app)
    /\ iter.action = "on_char_key"
    /\ app.current_search_query = <<"q">>

\* C9 as stated: with grouping off there is no grouped result set.
C9_AbsentWhenOff ==
    ~is_grouped(app) =>
        /\ ~app.data.grouped_list_of_processes.some
        /\ ~app.canvas_data.grouped_process_data.some

\* C9: every run of the engine builds the grouped result set and hands it to
\* the canvas data, with grouping off as with grouping on: one row for each
\* name of the snapshot's process list, before the search narrows them.
C9_GroupedAlwaysBuilt ==
    /\ app.canvas_data.grouped_process_data.some
          <=> app.data.grouped_list_of_processes.some
    /\ (pc = "draw" /\ iter.engine) =>
          /\ app.data.grouped_list_of_processes.some
          /\ app.canvas_data.grouped_process_data.some
          /\ LET grouped == app.data.grouped_list_of_processes.val
                 names == {r.name : r \in Range(app.data.list_of_processes)}
             IN /\ Len(grouped) = Cardinality(names)
                /\ {r.name : r \in Range(grouped)} = names
    /\ app.data.readings # 0 => app.canvas_data.grouped_process_data.some

\* The engine has run with grouping off and grouped rows are in the canvas
\* data.
C9_Witness ==
    /\ pc = "draw"
    /\ iter.engine
    /\ ~is_grouped(app)
    /\ app.canvas_data.grouped_process_data.some
    /\ Len(app.canvas_data.grouped_process_data.val) = 2

\* The rows the table shows are those of the snapshot held, narrowed by the
\* query held.
TableCurrent(a) ==
    /\ a.data.grouped_list_of_processes.some
    /\ a.canvas_data.grouped_process_data.some
    /\ a.canvas_data.process_data =
          SelectSeq(a.data.list_of_processes,
                    LAMBDA r : RowMatches(r, a.current_search_query,
                                          a.is_searching_with_pid))
    /\ a.canvas_data.grouped_process_data.val =
          SelectSeq(a.data.grouped_list_of_processes.val,
                    LAMBDA r : RowMatches(r, a.current_search_query,
                                          a.is_searching_with_pid))

\* C10: a key that leaves update_process_gui set has the engine run in the
\* same iteration, on the snapshot last applied (the readings and the set of
\* processes are not changed, frozen or not), and the flag is cleared.
C10_Recompute ==
    [][(Handled("KeyInput") /\ iter'.dirty) =>
         /\ iter'.engine
         /\ ~app'.update_process_gui
         /\ app'.data.readings = app.data.readings
         /\ IsPermutation(app'.data.list_of_processes,
                          app.data.list_of_processes)
         /\ TableCurrent(app')]_vars

\* While frozen, a key changed the search and the table was recomputed from
\* the snapshot held: the rows shown are fewer than the snapshot's.
C10_Witness ==
    /\ pc = "draw"
    /\ iter.msg.kind = "KeyInput"
    /\ iter.dirty
    /\ iter.engine
    /\ app.is_frozen
    /\ app.data.readings # 0
    /\ app.current_search_query # <<>>
    /\ Len(app.canvas_data.process_data) < Len(app.data.list_of_processes)

\* C11: at every draw it is not the case that grouping is on and the sort
\* key is PID; a 'p' that chose PID with grouping on, and a Tab that turned
\* grouping on with PID chosen, are drawn with CPU and reverse = true.
C11_NoPidWhenGrouped ==
    pc = "draw" =>
       /\ ~(is_grouped(app) /\ app.process_sorting_type = "PID")
       /\ (/\ is_grouped(app)
           /\ ~is_in_search_widget(app)
           /\ iter.action = "on_char_key"
           /\ iter.character = "p") =>
             /\ app.process_sorting_type = "CPU"
             /\ app.process_sorting_reverse

\* 'p' pressed in the process table with grouping on: the draw has CPU.
C11_Witness ==
    /\ pc = "draw"
    /\ is_grouped(app)
    /\ ~is_in_search_widget(app)
    /\ iter.msg = KeyInput("p", {})
    /\ iter.action = "on_char_key"
    /\ app.process_sorting_type = "CPU"
    /\ app.data.readings # 0

Returned == pc \in {"returned_ok", "returned_err"}

\* C18 as stated: cleanup runs once on every way out, a quit returns Ok and
\* a draw error returns that error.
C18_CleanupThenResult ==
    /\ ~Returned => st.cleanups = 0
    /\ Returned =>
          /\ st.cleanups = 1
          /\ st.exit = "break" => (pc = "returned_ok" /\ st.result = "Ok")
          /\ st.exit = "draw_error" => st.result = "Err(draw)"

\* C18: every way out of the loop calls cleanup exactly once before main
\* returns; Ok is returned only after a quit and the draw error only after a
\* failed draw, both with raw mode left; otherwise cleanup failed and main
\* returns cleanup's error.
C18_CleanupOnce ==
    /\ ~Returned => (st.cleanups = 0 /\ st.raw_mode /\ st.exit = "none")
    /\ Returned =>
          /\ st.cleanups = 1
          /\ st.exit \in {"break", "draw_error"}
          /\ st.result \in {"Ok", "Err(draw)", "Err(io)"}
          /\ st.result = "Ok" <=> pc = "returned_ok"
          /\ st.result = "Ok" => (st.exit = "break" /\ ~st.raw_mode)
          /\ st.result = "Err(draw)" => (st.exit = "draw_error" /\ ~st.raw_mode)
          /\ st.raw_mode => st.result = "Err(io)"

\* A failed draw: cleanup has run once and main returned the draw error.
C18_Witness ==
    /\ pc = "returned_err"
    /\ st.exit = "draw_error"
    /\ st.cleanups = 1
    /\ st.result = "Err(draw)"
    /\ ~st.raw_mode

\* The settings of the process view and the freeze.
Settings(a) ==
    <<a.is_frozen, a.enable_grouping, a.in_search, a.current_search_query,
      a.is_searching_with_pid, a.process_sorting_type,
      a.process_sorting_reverse, a.use_simple, a.data_collection,
      a.data.readings>>

\* C19: on Ctrl+R, app.reset() is called exactly when rtx.send succeeded;
\* the loop goes on to the draw in the same step either way; when the send
\* failed the key changes nothing of the application (a recompute that was
\* already due is still done).
C19_ResetCoupling ==
    [][(pc = "recv" /\ pc' # "recv" /\ iter'.msg = KeyInput("r", {"CONTROL"})) =>
         /\ pc' = "draw"
         /\ iter'.rtx_send \in {"Ok", "Err"}
         /\ iter'.action = "reset" <=> iter'.rtx_send = "Ok"
         /\ iter'.rtx_send = "Ok" => app'.data_collection = 0
         /\ iter'.rtx_send = "Err" =>
               /\ iter'.action = "none"
               /\ Settings(app') = Settings(app)
               /\ ~app.update_process_gui => app' = app]_vars

\* Ctrl+R whose send failed: the collected history is still there.
C19_Witness ==
    /\ pc = "draw"
    /\ iter.msg = KeyInput("r", {"CONTROL"})
    /\ iter.rtx_send = "Err"
    /\ iter.action = "none"
    /\ app.data_collection # 0

\* The codes that have an action under CONTROL.
ControlCodes == {"c", "f", "p", "r"}

Ignored(msg) ==
    /\ msg.kind = "KeyInput"
    /\ \/ msg.modifiers \notin {{}, {"CONTROL"}}
       \/ msg.modifiers = {"CONTROL"} /\ msg.code \notin ControlCodes

\* C20: a key whose modifiers are neither none nor exactly CONTROL, and a
\* CONTROL key whose code has no action, calls no App method and does not
\* break the loop: the loop draws with the settings as they were.
C20_IgnoredCombinations ==
    [][(pc = "recv" /\ pc' # "recv" /\ Ignored(iter'.msg)) =>
         /\ pc' = "draw"
         /\ iter'.action = "none"
         /\ iter'.rtx_send = "none"
         /\ Settings(app') = Settings(app)
         /\ ~app.update_process_gui => app' = app]_vars

\* Ctrl+Shift+C is drawn, not a quit.
C20_Witness ==
    /\ pc = "draw"
    /\ iter.msg = KeyInput("c", {"CONTROL", "SHIFT"})
    /\ iter.action = "none"
    /\ app.data.readings # 0

-----------------------------------------------------------------------------
(* main's loop, the input thread and the harvester thread side by side     *)
(* chan.events is the queue of the channel (tx, rx), chan.rx whether rx is  *)
(* still there; chan.resets counts the requests waiting in (rtx, rrx) and   *)
(* chan.rrx tells whether rrx is still there.  The harvester's DataState    *)
(* is the number of samples accumulated since it was last cleared, and the  *)
(* snapshot it last collected.                                              *)

MaxCycles == 2
MaxEvents == 2

\* The keys the input thread forwards here: freeze, reset, quit.
SysKeys == {KeyInput("f", {}), KeyInput("r", {"CONTROL"}), KeyInput("q", {})}

\* data_state.data.first_run_cleanup(): what was accumulated is cleared.
first_run_cleanup(h) == [h EXCEPT !.accumulated = 0]

\* data_state.update_data(): sample n is collected on top of what was
\* accumulated.
update_data(h, n) ==
    [h EXCEPT !.accumulated = @ + 1,
              !.data = [n |-> n, since_clear |-> h.accumulated + 1]]

\* data_state.data.clone(), boxed, as an Update carries it.
Snapshot(d) == [DefaultData EXCEPT !.readings = d.n]

\* A harvester that collects before it looks for a reset.
phase_after_collect_first(phase) ==
    CASE phase = "update_data" -> "try_recv"
      [] phase = "try_recv" -> "send"
      [] phase = "send" -> "sleep"
      [] phase = "sleep" -> "update_data"

\* The order of the harvester's loop body.
phase_after(phase) ==
    CASE phase = "try_recv" -> "update_data"
      [] phase = "update_data" -> "send"
      [] phase = "send" -> "sleep"
      [] phase = "sleep" -> "try_recv"

\* A panic that takes the whole process down.
on_send_failure_aborts(t) ==
    [t EXCEPT !.harvester.phase = "panicked", !.input = "aborted"]

\* tx.send(..).unwrap() on an Err: the harvester thread panics, alone.
on_send_failure(t) == [t EXCEPT !.harvester.phase = "panicked"]

\* A receive that takes the newest message of the queue.
recv_timeout_newest(events) ==
    [msg |-> events[Len(events)], rest |-> SubSeq(events, 1, Len(events) - 1)]

\* rx.recv_timeout(..) on a queue that is not empty: its oldest message.
recv_timeout(events) == [msg |-> Head(events), rest |-> Tail(events)]

MainReturned == pc \in {"returned_ok", "returned_err"}

\* The process lives until main has returned and the runtime exits.
ProcessRuns == pc # "exited"

InitSys ==
    /\ pc = "recv"
    /\ app = NewApp
    /\ iter = Iter0
    /\ temp = IdleTemp
    /\ inp = IdleInp
    /\ st = LoopSt
    /\ chan = IdleChan
    /\ threads = IdleThreads
    /\ hist = IdleHist

\* if let Ok(message) = rrx.try_recv(): one request is taken if one waits,
\* and the accumulated state is cleared; the loop goes on either way.
HarvTryRecv ==
    /\ ProcessRuns
    /\ threads.harvester.phase = "try_recv"
    /\ hist.cycle < MaxCycles
    /\ LET pending == chan.resets > 0
           h == IF pending THEN first_run_cleanup(threads.harvester)
                ELSE threads.harvester
       IN /\ chan' = [chan EXCEPT !.resets = IF pending THEN @ - 1 ELSE @]
          /\ threads' = [threads EXCEPT
                           !.harvester = [h EXCEPT !.phase = phase_after("try_recv")]]
          /\ hist' = [hist EXCEPT !.cycle = @ + 1, !.cleared = pending]
    /\ UNCHANGED <<pc, app, iter, temp, inp, st>>

\* futures::executor::block_on(data_state.update_data())
HarvUpdateData ==
    /\ ProcessRuns
    /\ threads.harvester.phase = "update_data"
    /\ threads' = [threads EXCEPT
                     !.harvester = [update_data(threads.harvester, hist.cycle)
                                       EXCEPT !.phase = phase_after("update_data")]]
    /\ UNCHANGED <<pc, app, iter, temp, inp, st, chan, hist>>

\* tx.send(Event::Update(..)).unwrap(): the snapshot is queued, or, rx
\* being gone, the thread panics and its rrx goes with it.
HarvSend ==
    /\ ProcessRuns
    /\ threads.harvester.phase = "send"
    /\ IF chan.rx
       THEN /\ chan' = [chan EXCEPT
                          !.events = Append(@, Update(Snapshot(threads.harvester.data)))]
            /\ threads' = [threads EXCEPT !.harvester.phase = phase_after("send")]
            /\ hist' = [hist EXCEPT
                          !.harvester_log =
                              Append(@, [n |-> threads.harvester.data.n,
                                         since_clear |->
                                             threads.harvester.data.since_clear,
                                         cycle |-> hist.cycle,
                                         cleared |-> hist.cleared])]
       ELSE /\ chan' = [chan EXCEPT !.rrx = FALSE]
            /\ threads' = on_send_failure(threads)
            /\ UNCHANGED hist
    /\ UNCHANGED <<pc, app, iter, temp, inp, st>>

\* thread::sleep(..)
HarvSleep ==
    /\ ProcessRuns
    /\ threads.harvester.phase = "sleep"
    /\ threads' = [threads EXCEPT !.harvester.phase = phase_after("sleep")]
    /\ UNCHANGED <<pc, app, iter, temp, inp, st, chan, hist>>

\* The input thread sends an event that passed the debounce: it is queued,
\* or, rx being gone, the thread returns.
SysInputSend(event) ==
    /\ ProcessRuns
    /\ threads.input = "running"
    /\ Len(hist.input_log) < MaxEvents
    /\ IF chan.rx
       THEN /\ chan' = [chan EXCEPT !.events = Append(@, event)]
            /\ hist' = [hist EXCEPT !.input_log = Append(@, event)]
            /\ UNCHANGED threads
       ELSE /\ threads' = [threads EXCEPT !.input = on_send_result(TRUE)]
            /\ UNCHANGED <<chan, hist>>
    /\ UNCHANGED <<pc, app, iter, temp, inp, st>>

\* recv_timeout returns the oldest message and the loop handles it as in
\* the merge loop above; Ctrl+R sends on rtx, which succeeds while rrx is
\* there.
SysRecv ==
    /\ pc = "recv"
    /\ chan.events # <<>>
    /\ LET got == recv_timeout(chan.events)
           msg == got.msg
           event == [code |-> msg.code, modifiers |-> msg.modifiers]
           d == IF msg.kind = "KeyInput" THEN key_dispatch(event, app)
                ELSE Dispatched(FALSE, "none", "")
           sent == chan.rrx
           action == reset_if_sent(d.action, sent)
           acted == Invoke(app, action, d.character)
       IN /\ pc' = after_recv(msg.kind, d.quit)
          /\ chan' = [chan EXCEPT
                        !.events = got.rest,
                        !.resets = IF action = "reset" THEN @ + 1 ELSE @]
          /\ hist' = [hist EXCEPT !.received = Append(@, msg)]
          /\ app' = CASE d.quit -> app
                      [] msg.kind = "KeyInput" /\ ~d.quit ->
                            fix_pid_sorting(recompute_if_dirty(acted))
                      [] msg.kind = "Update" ->
                            fix_pid_sorting(apply_update(app, msg.data))
                      [] OTHER -> fix_pid_sorting(app)
    /\ UNCHANGED <<iter, temp, inp, st, threads>>

\* recv_timeout finds the queue empty for a whole tick.
SysTimeout ==
    /\ pc = "recv"
    /\ chan.events = <<>>
    /\ pc' = after_recv("Timeout", FALSE)
    /\ app' = fix_pid_sorting(app)
    /\ UNCHANGED <<iter, temp, inp, st, chan, threads, hist>>

SysDrawOk ==
    /\ pc = "draw"
    /\ pc' = "recv"
    /\ UNCHANGED <<app, iter, temp, inp, st, chan, threads, hist>>

\* main returns: rx goes, and what was queued with it.
DropRx(c) == [c EXCEPT !.rx = FALSE, !.events = <<>>]

SysDrawErr ==
    /\ pc = "draw"
    /\ \E outcome \in CleanupOutcomes : st' = on_draw_error(st, outcome)
    /\ pc' = "returned_err"
    /\ chan' = DropRx(chan)
    /\ app' = NewApp
    /\ UNCHANGED <<iter, temp, inp, threads, hist>>

SysCleanup ==
    /\ pc = "cleanup"
    /\ \E outcome \in CleanupOutcomes :
          /\ st' = on_break(st, outcome)
          /\ pc' = IF outcome = "Ok" THEN "returned_ok" ELSE "returned_err"
    /\ chan' = DropRx(chan)
    /\ app' = NewApp
    /\ UNCHANGED <<iter, temp, inp, threads, hist>>

\* The runtime ends the process after main: the threads end with it.
SysExit ==
    /\ MainReturned
    /\ pc' = "exited"
    /\ UNCHANGED <<app, iter, temp, inp, st, chan, threads, hist>>

SysMain == SysRecv \/ SysTimeout \/ SysDrawOk \/ SysDrawErr \/ SysCleanup

NextSys ==
    \/ HarvTryRecv
    \/ HarvUpdateData
    \/ HarvSend
    \/ HarvSleep
    \/ \E event \in SysKeys : SysInputSend(event)
    \/ SysRecv
    \/ SysTimeout
    \/ SysDrawOk
    \/ SysDrawErr
    \/ SysCleanup
    \/ SysExit

SpecSys == InitSys /\ [][NextSys]_vars

\* main is scheduled as long as it has a step to take.
SpecSysFair == SpecSys /\ WF_vars(SysMain)

HarvPhase == threads.harvester.phase

HarvesterOrder ==
    {<<"try_recv", "update_data">>, <<"update_data", "send">>,
     <<"send", "sleep">>, <<"sleep", "try_recv">>, <<"send", "panicked">>}

\* One snapshot has been sent for each iteration that got past its send.
OneSnapshotPerCycle ==
    Len(hist.harvester_log) =
        hist.cycle - (IF HarvPhase \in {"update_data", "send", "panicked"}
                      THEN 1 ELSE 0)

\* The snapshot of iteration i is sample i; after a clear in its iteration
\* it holds that sample alone, otherwise one more than the one before.
CollectedAfterClear ==
    \A i \in 1..Len(hist.harvester_log) :
       LET e == hist.harvester_log[i]
       IN /\ e.n = i
          /\ e.cycle = i
          /\ e.since_clear = IF e.cleared \/ i = 1 THEN 1
                             ELSE hist.harvester_log[i - 1].since_clear + 1

\* C12: an iteration of the harvester looks for a reset (taking one request
\* and clearing the accumulated state if one waits, going on either way),
\* then collects, then sends one snapshot, then sleeps; the snapshot of an
\* iteration that took a reset was collected after the clear.
C12_HarvesterCycle ==
    /\ [][HarvPhase' # HarvPhase =>
            /\ <<HarvPhase, HarvPhase'>> \in HarvesterOrder
            /\ HarvPhase = "try_recv" =>
                  /\ HarvPhase' = "update_data"
                  /\ IF chan.resets > 0
                     THEN /\ chan'.resets = chan.resets - 1
                          /\ threads'.harvester.accumulated = 0
                     ELSE /\ chan'.resets = 0
                          /\ threads'.harvester.accumulated =
                                threads.harvester.accumulated
            /\ HarvPhase = "update_data" => chan' = chan
            /\ HarvPhase' = "sleep" =>
                  /\ Len(chan'.events) = Len(chan.events) + 1
                  /\ chan'.events[Len(chan'.events)].kind = "Update"
                  /\ chan'.events[Len(chan'.events)].data.readings = hist.cycle
            /\ HarvPhase = "sleep" => chan' = chan]_vars
    /\ []OneSnapshotPerCycle
    /\ []CollectedAfterClear

\* The second iteration took a reset and sent a snapshot collected after
\* the clear; the first had none to take.
C12_Witness ==
    /\ Len(hist.harvester_log) = 2
    /\ ~hist.harvester_log[1].cleared
    /\ hist.harvester_log[2].cleared
    /\ hist.harvester_log[2].since_clear = 1
    /\ HarvPhase = "sleep"

\* C13: the harvester panics only at its send, rx being gone, which is after
\* main has returned; the panic changes nothing of main or of the input
\* thread, which is running or has returned by itself, and what the process
\* returns is what main returned.
C13_HarvesterPanicsAlone ==
    /\ [][(HarvPhase' = "panicked" /\ HarvPhase # "panicked") =>
            /\ HarvPhase = "send"
            /\ ~chan.rx
            /\ threads'.input = threads.input
            /\ pc' = pc
            /\ st' = st
            /\ app' = app
            /\ hist' = hist
            /\ chan'.events = chan.events]_vars
    /\ [](threads.input \in {"running", "input_returned"})
    /\ [](HarvPhase = "panicked" => (MainReturned \/ pc = "exited"))
    /\ [](pc = "exited" => st.result \in {"Ok", "Err(draw)", "Err(io)"})

\* main has returned Ok, the harvester has panicked at its send and the
\* input thread is still running.
C13_Witness ==
    /\ HarvPhase = "panicked"
    /\ threads.input = "running"
    /\ pc = "returned_ok"
    /\ st.result = "Ok"
    /\ hist.cycle = 2

FromInput(q) == SelectSeq(q, LAMBDA m : m.kind = "KeyInput")

FromHarvester(q) == SelectSeq(q, LAMBDA m : m.kind = "Update")

\* What main has handled of a producer is the beginning of what the
\* producer sent, in its order; with rx there, the rest is in the queue.
InOrder ==
    /\ \A i \in 1..Len(FromInput(hist.received)) :
          FromInput(hist.received)[i] = hist.input_log[i]
    /\ \A i \in 1..Len(FromHarvester(hist.received)) :
          FromHarvester(hist.received)[i].data.readings = hist.harvester_log[i].n
    /\ chan.rx =>
          /\ FromInput(hist.received \o chan.events) = hist.input_log
          /\ Len(FromHarvester(hist.received \o chan.events)) =
                Len(hist.harvester_log)

LoopRuns == pc \in {"recv", "draw"}

\* C15: the queue loses a message only to main's receive, one in an
\* iteration, its oldest; an Update is taken from the queue when the
\* application is frozen too, and then not applied; each producer's
\* messages are handled in the order it sent them; and while the loop runs
\* the k-th message sent is handled at last.
C15_DrainInOrder ==
    /\ [][(chan'.rx /\ chan'.events # chan.events
              /\ Len(chan'.events) <= Len(chan.events)) =>
            /\ pc = "recv"
            /\ pc' \in {"draw", "cleanup"}
            /\ chan'.events = Tail(chan.events)
            /\ hist'.received = Append(hist.received, Head(chan.events))]_vars
    /\ [][(pc = "recv" /\ pc' # "recv" /\ chan.events # <<>>) =>
            /\ chan'.events = Tail(chan.events)
            /\ (Head(chan.events).kind = "Update" /\ app.is_frozen) =>
                  app'.data = app.data]_vars
    /\ []InOrder
    /\ \A k \in 1..(MaxCycles + MaxEvents) :
          (Len(hist.received) + Len(chan.events) >= k /\ LoopRuns)
             ~> (Len(hist.received) >= k \/ ~LoopRuns)

\* Frozen, main has taken the second snapshot from the queue and still
\* holds the first.
C15_Witness ==
    /\ pc = "draw"
    /\ app.is_frozen
    /\ Len(FromHarvester(hist.received)) = 2
    /\ app.data.readings = 1
    /\ chan.events = <<>>

=============================================================================
